---- MODULE Spec2Model ----
(***************************************************************************)
(* Order placement of the duka backend (products/serializers.py,           *)
(* products/models.py, products/views.py) as a state machine over the      *)
(* database rows.  No transaction is opened anywhere in the code, so every *)
(* ORM write is committed on its own and is visible to every other request *)
(* at once; a request is a sequence of such steps and requests interleave  *)
(* between them.                                                           *)
(*                                                                         *)
(* Amounts of money are integers (a price of 10 stands for 10.00).         *)
(***************************************************************************)
EXTENDS Integers, Sequences, FiniteSets

\* ------------------------------------------------------------- bounds
MaxStock == 2

Products == {"p1", "p2"}
Reqs     == {"r1", "r2"}
ItemIds  == {"i1", "i2"}
Customers  == {"c1", "c2"}
Users      == {"u1", "u2", "u3"}
Categories == {"k1", "k2", "k3"}
Prices   == {10, 15}

Quantities == 1..MaxStock
Line       == [product : Products, quantity : Quantities]
\* the item lists a request may carry: one line or two lines
LineSeqs   == {<<l>> : l \in Line} \cup {<<l1, l2>> : l1 \in Line, l2 \in Line}

VARIABLES
    stock,    \* Product.stock of each product row
    price,    \* Product.price of each product row
    stock0,   \* the stock each product started with (never changes)
    pc,       \* where each order request is in OrderViewSet.create
    lines,    \* the items_data of each request
    snap,     \* the Product instances a request holds in memory, one per line
    orders,   \* the Order rows; an order is known by the request that made it
    items,    \* the OrderItem rows
    wrote,    \* how many row writes each request has committed so far
    fields,   \* the customer_id and status each request carries
    is_active,  \* Product.is_active and Customer.is_active of each row
    is_staff,   \* User.is_staff of each user
    categories, \* Product.categories of each product row
    parent,     \* Category.parent of each category row
    notify,     \* where a run of _send_order_notifications stands
    result      \* the last read request and what it was answered

\* what the order requests and the row edits never touch
side == <<is_active, is_staff, categories, parent, notify, result>>

vars == <<stock, price, stock0, pc, lines, snap, orders, items, wrote,
          fields, is_active, is_staff, categories, parent, notify, result>>

\* Order.total_amount has default=0.00
DefaultTotal == 0

\* Order.OrderStatus
OrderStatuses == {"PENDING", "PROCESSING", "COMPLETED", "CANCELLED"}

NoOrder == [exists |-> FALSE, total |-> DefaultTotal, status |-> "PENDING"]
NoItem  == [used |-> FALSE, order |-> "r1", product |-> "p1",
            quantity |-> 1, price_at_time |-> 0]

\* a request that names customer c1 and carries no status
NoFields == [customer |-> "c1", status |-> "none"]

\* no run of the dispatcher is under way
NotifyIdle == [at |-> "idle", order |-> "r1", sms |-> "no", email |-> "no",
               logged |-> 0, raised |-> FALSE]

\* no read request has been answered
NoResult == [user |-> "none", view |-> "none", action |-> "none",
             target |-> "none", code |-> 0, rows |-> {}, count |-> 0,
             sum |-> 0, null |-> FALSE]

\* ------------------------------------------------------------- helpers
RECURSIVE SumOver(_, _)
SumOver(f, S) ==
    IF S = {} THEN 0
    ELSE LET x == CHOOSE y \in S : TRUE
         IN f[x] + SumOver(f, S \ {x})

\* OrderItem.get_subtotal
get_subtotal(it) == it.quantity * it.price_at_time

\* order.order_items.all()
order_items(its, o) == {i \in ItemIds : its[i].used /\ its[i].order = o}

\* the sum Order.calculate_total computes
ItemsTotal(its, o) ==
    SumOver([i \in ItemIds |-> get_subtotal(its[i])], order_items(its, o))

\* Order.calculate_total: the total is written when it differs
calculate_total(ords, its, o) ==
    IF ords[o].total # ItemsTotal(its, o)
    THEN [ords EXCEPT ![o].total = ItemsTotal(its, o)]
    ELSE ords

\* a stock comparison that lets one unit too many through
StockShortOffByOne(available, quantity) == available + 1 < quantity

\* the stock comparison of OrderItemSerializer.validate (quantity >
\* product.stock) and of OrderSerializer.create (product.stock < quantity)
StockShort(available, quantity) == available < quantity

\* OrderItemSerializer.validate over every line, on the instances fetched
AnyLineShort(ls, sn) ==
    \E i \in 1..Len(ls) : StockShort(sn[i].stock, ls[i].quantity)

\* where a request stands once the instances in sn are fetched
AfterFetch(ls, sn) ==
    IF Len(sn) < Len(ls) THEN "fetching"
    ELSE IF AnyLineShort(ls, sn) THEN "rejected"
    ELSE "valid"

\* PrimaryKeyRelatedField.to_internal_value: the product row as it is now
Fetch(p) == [stock |-> stock[p], price |-> price[p]]

\* ------------------------------------------------------------- Init
\* no request has been made yet
InitRequests ==
    /\ pc = [r \in Reqs |-> "idle"]
    /\ lines = [r \in Reqs |-> <<>>]
    /\ snap = [r \in Reqs |-> <<>>]
    /\ fields = [r \in Reqs |-> NoFields]
    /\ wrote = [r \in Reqs |-> 0]
    /\ notify = NotifyIdle
    /\ result = NoResult

\* active products without categories; customer c1 is active and c2 is not;
\* u3 is staff
InitPlain ==
    /\ is_active = [x \in Products \cup Customers |-> x # "c2"]
    /\ is_staff = [u \in Users |-> u = "u3"]
    /\ categories = [p \in Products |-> {}]
    /\ parent = [k \in Categories |-> "none"]

Init ==
    /\ stock \in [Products -> 1..MaxStock]
    /\ stock0 = stock
    /\ price = [p \in Products |-> 10]
    /\ orders = [r \in Reqs |-> NoOrder]
    /\ items = [i \in ItemIds |-> NoItem]
    /\ InitRequests
    /\ InitPlain

\* ------------------------------------------------------------- request payloads
\* what a request may send: a customer id (c9 names no customer), a status
\* or none, and item lines whose product id may name no product (p9) and
\* whose quantity may be 0
CustomerInputs == Customers \cup {"c9"}
StatusInputs   == OrderStatuses \cup {"none", "BOGUS"}
RawLine        == [product : Products \cup {"p9"}, quantity : 0..MaxStock]
RawLineSeqs    == {<<>>} \cup {<<l>> : l \in RawLine}
                  \cup {<<l1, l2>> : l1 \in RawLine, l2 \in RawLine}

\* a customer lookup that does not look at is_active
CustomerExists(c) == c \in Customers

\* OrderSerializer.customer_id: the queryset holds the active customers
CustomerValid(c) == c \in Customers /\ is_active[c]

\* the status field of the model serializer: absent, or one of the choices
StatusValid(st) == st = "none" \/ st \in OrderStatuses

\* OrderItemSerializer.product_id: the queryset holds the active products
ProductValid(p) == p \in Products /\ is_active[p]

\* OrderItemSerializer.validate_quantity
QuantityValid(q) == ~(q < 1)

\* OrderSerializer.validate_items_data
ItemsValid(ls) == ls # <<>>

\* the field validation of is_valid(): every field of the order and of each
\* line is accepted
FieldsValid(c, st, ls) ==
    /\ CustomerValid(c)
    /\ StatusValid(st)
    /\ ItemsValid(ls)
    /\ \A i \in 1..Len(ls) :
          ProductValid(ls[i].product) /\ QuantityValid(ls[i].quantity)

\* Order.objects.create(**validated_data): the status the payload carries,
\* or the model's default
CreatedStatus(st) == IF st = "none" THEN "PENDING" ELSE st

\* ------------------------------------------------------------- order placement
\* POST /orders/ with customer c, status st and lines ls: serializer.is_valid()
\* refuses the payload (400) when a field is not accepted; otherwise the
\* first line's product is fetched and, when it is the only line, the stock
\* validation is decided.
SubmitRaw(r, c, st, ls) ==
    /\ pc[r] = "idle"
    /\ fields' = [fields EXCEPT ![r] = [customer |-> c, status |-> st]]
    /\ lines' = [lines EXCEPT ![r] = ls]
    /\ IF FieldsValid(c, st, ls)
       THEN /\ snap' = [snap EXCEPT ![r] = <<Fetch(ls[1].product)>>]
            /\ pc' = [pc EXCEPT ![r] = AfterFetch(ls, snap'[r])]
       ELSE /\ snap' = snap
            /\ pc' = [pc EXCEPT ![r] = "rejected"]
    /\ UNCHANGED <<stock, price, stock0, orders, items, wrote, side>>

\* a request for the active customer c1 that carries no status and whose
\* lines name products with quantities of at least 1
Submit(r, ls) == SubmitRaw(r, "c1", "none", ls)

\* is_valid() goes on: the next line's product is fetched (each line gets an
\* instance of its own, also for a product listed twice); after the last line
\* the request is rejected (400) when some line asks for more than its
\* instance's stock.
FetchLine(r) ==
    /\ pc[r] = "fetching"
    /\ snap' = [snap EXCEPT
                  ![r] = Append(@, Fetch(lines[r][Len(@) + 1].product))]
    /\ pc' = [pc EXCEPT ![r] = AfterFetch(lines[r], snap'[r])]
    /\ UNCHANGED <<stock, price, stock0, lines, orders, items, wrote, fields, side>>

\* OrderSerializer.create up to Order.objects.create: the stock loop reads the
\* same instances validation read, then the Order row is inserted.
CreateOrder(r) ==
    /\ pc[r] = "valid"
    /\ IF AnyLineShort(lines[r], snap[r])
       THEN /\ pc' = [pc EXCEPT ![r] = "rejected"]
            /\ UNCHANGED <<orders, wrote>>
       ELSE /\ pc' = [pc EXCEPT ![r] = "ordered"]
            /\ orders' = [orders EXCEPT ![r] =
                            [exists |-> TRUE, total |-> DefaultTotal,
                             status |-> CreatedStatus(fields[r].status)]]
            /\ wrote' = [wrote EXCEPT ![r] = @ + 1]
    /\ UNCHANGED <<stock, price, stock0, lines, snap, items, fields, side>>

\* Product.save: Product.pk is a UUID set at construction, so the "not
\* self.pk" branch is skipped, super().save() writes every field of the
\* instance to its row, and self.order then raises AttributeError (a Product
\* has no such attribute).  Every call leaves the row written and raises.
ProductSave(p, inst) ==
    /\ stock' = [stock EXCEPT ![p] = inst.stock]
    /\ price' = [price EXCEPT ![p] = inst.price]

\* OrderSerializer.create, first turn of the item loop: the instance's stock
\* is reduced and the instance saved.  Product.save raises after its write,
\* so the loop ends here and the request answers 500: no OrderItem is
\* created, calculate_total and the notifications are never reached.
SaveProduct(r) ==
    /\ pc[r] = "ordered"
    /\ ProductSave(lines[r][1].product,
                   [snap[r][1] EXCEPT !.stock = @ - lines[r][1].quantity])
    /\ pc' = [pc EXCEPT ![r] = "error"]
    /\ wrote' = [wrote EXCEPT ![r] = @ + 1]
    /\ UNCHANGED <<stock0, lines, snap, orders, items, fields, side>>

Place(r) ==
    \/ \E ls \in LineSeqs : Submit(r, ls)
    \/ FetchLine(r)
    \/ CreateOrder(r)
    \/ SaveProduct(r)

NextOrders == \E r \in Reqs : Place(r)

\* ------------------------------------------------------------- catalogue edits
\* what request.data.get('stock') may hold: nothing, text that int() refuses,
\* or an integer
StockInputs ==
    {[kind |-> "none", value |-> 0], [kind |-> "text", value |-> 0]}
    \cup {[kind |-> "int", value |-> n] : n \in (-1)..MaxStock}

\* update_stock's checks without the sign test
StockInputAnyInteger(raw) == raw.kind = "int"

\* ProductViewSet.update_stock's checks: a value is required, int() must take
\* it and it must not be negative
StockInputValid(raw) == raw.kind = "int" /\ ~(raw.value < 0)

\* ProductViewSet.update_stock: a refused value answers 400 and writes
\* nothing; an accepted one is stored through Product.save.
UpdateStock(p, raw) ==
    /\ IF StockInputValid(raw)
       THEN ProductSave(p, [Fetch(p) EXCEPT !.stock = raw.value])
       ELSE UNCHANGED <<stock, price>>
    /\ UNCHANGED <<stock0, pc, lines, snap, orders, items, wrote, fields, side>>

\* Product.save ends in self.order.calculate_total(), and a Product has no
\* order: every call raises AttributeError once the row is written
ProductSaveRaises == TRUE

\* the status update_stock answers with: 400 for a missing or refused
\* value; for an accepted one 200 when product.save() returns, and 500 when
\* it raises (nothing in the view catches it)
UpdateStockStatus(raw) ==
    IF ~StockInputValid(raw) THEN 400
    ELSE IF ProductSaveRaises THEN 500
    ELSE 200

\* ProductSerializer.validate_price
PriceInputValid(v) == ~(v <= 0)

\* PUT/PATCH /products/<id>/ with a price: ProductSerializer validates it and
\* the instance is stored through Product.save.
SetPrice(p, v) ==
    /\ IF PriceInputValid(v)
       THEN ProductSave(p, [Fetch(p) EXCEPT !.price = v])
       ELSE UNCHANGED <<stock, price>>
    /\ UNCHANGED <<stock0, pc, lines, snap, orders, items, wrote, fields, side>>

\* ------------------------------------------------------------- order items
\* the identifier a new OrderItem row gets
FreeItem == CHOOSE i \in ItemIds :
                ~items[i].used /\ (i = "i1" \/ items["i1"].used)

\* OrderItem.save: the product's price is stored as price_at_time on every
\* save, the row is written, and the order's total is recomputed.
OrderItemSave(i, it) ==
    /\ items' = [items EXCEPT ![i] = [it EXCEPT !.price_at_time =
                                                   price[it.product]]]
    /\ orders' = calculate_total(orders, items', it.order)

\* OrderItem.objects.create(order=o, product=p, quantity=q) on an order
\* that exists
AddItem(o, p, q) ==
    /\ orders[o].exists
    /\ \E i \in ItemIds : ~items[i].used
    /\ OrderItemSave(FreeItem, [used |-> TRUE, order |-> o, product |-> p,
                                quantity |-> q, price_at_time |-> 0])
    /\ UNCHANGED <<stock, price, stock0, pc, lines, snap, wrote, fields, side>>

\* an OrderItem row is loaded, given the quantity q (perhaps the one it
\* had) and saved again
ResaveItem(i, q) ==
    /\ items[i].used
    /\ OrderItemSave(i, [items[i] EXCEPT !.quantity = q])
    /\ UNCHANGED <<stock, price, stock0, pc, lines, snap, wrote, fields, side>>

NextCatalog ==
    \/ \E p \in Products, raw \in StockInputs : UpdateStock(p, raw)
    \/ \E p \in Products, v \in Prices \cup {0} : SetPrice(p, v)

\* the quantities an item edit may give
ItemQuantities == {1, 2}

NextItems ==
    \/ \E o \in Reqs, p \in Products, q \in ItemQuantities : AddItem(o, p, q)
    \/ \E i \in ItemIds, q \in ItemQuantities : ResaveItem(i, q)

Next == NextOrders \/ NextCatalog \/ NextItems

Spec == Init /\ [][Next]_vars

\* order requests alone: no catalogue edit, no item edit
SpecOrders == Init /\ [][NextOrders]_vars

\* a request of one line (it is decided when its only product is fetched)
PlaceOne(r) ==
    \/ \E l \in Line : Submit(r, <<l>>)
    \/ CreateOrder(r)
    \/ SaveProduct(r)

\* admin stock updates beside order requests of one line each
NextStock ==
    \/ \E r \in Reqs : PlaceOne(r)
    \/ \E p \in Products, raw \in StockInputs : UpdateStock(p, raw)

SpecStock == Init /\ [][NextStock]_vars

\* one order request, price edits and item edits
NextPriced ==
    \/ Place("r1")
    \/ \E p \in Products, v \in Prices \cup {0} : SetPrice(p, v)
    \/ NextItems

SpecItems == Init /\ [][NextPriced]_vars

\* OrderItem has no delete of its own and no signal is connected: the row
\* goes and the order is not touched
DeleteItem(i) ==
    /\ items[i].used
    /\ items' = [items EXCEPT ![i] = NoItem]
    /\ UNCHANGED <<stock, price, stock0, pc, lines, snap, orders, wrote,
                   fields, side>>

\* one order request, price edits, item edits and item deletions
NextItemEdits ==
    \/ NextPriced
    \/ \E i \in ItemIds : DeleteItem(i)

SpecItemEdits == Init /\ [][NextItemEdits]_vars

\* one order request with any payload, products active or not
PlaceRaw(r) ==
    \/ \E c \in CustomerInputs, st \in StatusInputs, ls \in RawLineSeqs :
          SubmitRaw(r, c, st, ls)
    \/ FetchLine(r)
    \/ CreateOrder(r)
    \/ SaveProduct(r)

NextFields == PlaceRaw("r1")

InitFields ==
    /\ stock \in [Products -> 1..MaxStock]
    /\ stock0 = stock
    /\ price = [p \in Products |-> 10]
    /\ orders = [r \in Reqs |-> NoOrder]
    /\ items = [i \in ItemIds |-> NoItem]
    /\ InitRequests
    /\ is_active \in [Products \cup Customers -> BOOLEAN]
    /\ is_active["c1"] /\ ~is_active["c2"]
    /\ is_staff = [u \in Users |-> u = "u3"]
    /\ categories = [p \in Products |-> {}]
    /\ parent = [k \in Categories |-> "none"]

SpecFields == InitFields /\ [][NextFields]_vars

\* ------------------------------------------------------------- notifications
\* the rows no notification step writes
rows == <<stock, price, stock0, pc, lines, snap, orders, items, wrote,
          fields>>

\* an SMS failure that is not caught: the dispatcher ends there and the
\* exception goes to its caller
AfterSmsUncaught(n, ok) ==
    IF ok THEN [n EXCEPT !.at = "email", !.sms = "sent"]
    ELSE [n EXCEPT !.at = "done", !.sms = "failed", !.raised = TRUE]

\* _send_order_notifications, first try block: the SMS is sent, or the
\* exception is caught and printed; the email block comes next either way
AfterSms(n, ok) ==
    IF ok THEN [n EXCEPT !.at = "email", !.sms = "sent"]
    ELSE [n EXCEPT !.at = "email", !.sms = "failed", !.logged = @ + 1]

\* _send_order_notifications, second try block: the email is sent, or the
\* exception is caught and printed; the method returns None
AfterEmail(n, ok) ==
    IF ok THEN [n EXCEPT !.at = "done", !.email = "sent"]
    ELSE [n EXCEPT !.at = "done", !.email = "failed", !.logged = @ + 1]

\* _send_order_notifications(order) is entered with a persisted order
Notify(o) ==
    /\ notify.at = "idle"
    /\ orders[o].exists
    /\ notify' = [NotifyIdle EXCEPT !.at = "sms", !.order = o]
    /\ UNCHANGED <<rows, is_active, is_staff, categories, parent, result>>

\* the SMS attempt, which the gateway lets succeed or fail
SendSms(ok) ==
    /\ notify.at = "sms"
    /\ notify' = AfterSms(notify, ok)
    /\ UNCHANGED <<rows, is_active, is_staff, categories, parent, result>>

\* the email attempt, which the mail backend lets succeed or fail
SendEmail(ok) ==
    /\ notify.at = "email"
    /\ notify' = AfterEmail(notify, ok)
    /\ UNCHANGED <<rows, is_active, is_staff, categories, parent, result>>

NextNotify ==
    \/ \E o \in Reqs : Notify(o)
    \/ \E ok \in BOOLEAN : SendSms(ok)
    \/ \E ok \in BOOLEAN : SendEmail(ok)

\* the rows after some order requests: orders persisted, stock reduced
InitNotify ==
    /\ stock0 \in [Products -> 1..MaxStock]
    /\ stock \in [Products -> 0..MaxStock]
    /\ \A p \in Products : stock[p] <= stock0[p]
    /\ price = [p \in Products |-> 10]
    /\ orders \in [Reqs -> {NoOrder, [NoOrder EXCEPT !.exists = TRUE]}]
    /\ items = [i \in ItemIds |-> NoItem]
    /\ InitRequests
    /\ InitPlain

\* the dispatcher run on a persisted order
SpecNotify == InitNotify /\ [][NextNotify]_vars

\* ------------------------------------------------------------- access to customers and orders
\* Customer.user: customer c1 is user u1's profile, c2 is u2's; u3 has none
customer_user == [c \in Customers |-> IF c = "c1" THEN "u1" ELSE "u2"]

Views       == {"customers", "orders"}
ViewActions == {"list", "retrieve", "update", "destroy"}

\* the rows of each table
ViewRows(view) ==
    IF view = "customers" THEN Customers
    ELSE {o \in Reqs : orders[o].exists}

\* the user a row belongs to: customer.user, order.customer.user
RowUser(view, x) ==
    IF view = "customers" THEN customer_user[x]
    ELSE customer_user[fields[x].customer]

\* BaseViewSet.get_permissions: list and retrieve ask for nothing, every
\* other action for IsAdminUser
Permitted(u, act) == act \in {"list", "retrieve"} \/ is_staff[u]

\* a queryset that is not narrowed to the user
QuerysetUnfiltered(u, view) == ViewRows(view)

\* CustomerViewSet.get_queryset and OrderViewSet.get_queryset: every row for
\* staff, the user's own rows otherwise
Queryset(u, view) ==
    IF is_staff[u] THEN ViewRows(view)
    ELSE {x \in ViewRows(view) : RowUser(view, x) = u}

\* what a request of user u is answered: 403 without permission; a list
\* gives the queryset; retrieve, update and destroy look the target up in
\* the queryset (get_object) and answer 404 when it is not there
Answer(u, view, act, target) ==
    LET code == IF ~Permitted(u, act) THEN 403
                ELSE IF act = "list" \/ target \in Queryset(u, view) THEN 200
                ELSE 404
        got  == IF code # 200 THEN {}
                ELSE IF act = "list" THEN Queryset(u, view)
                ELSE {target}
    IN  [NoResult EXCEPT !.user = u, !.view = view, !.action = act,
                         !.target = target, !.code = code, !.rows = got]

\* a request on /customers/ or /orders/ by an authenticated user
Access(u, view, act, target) ==
    /\ act = "list" <=> target = "none"
    /\ result' = Answer(u, view, act, target)
    /\ UNCHANGED <<rows, is_active, is_staff, categories, parent, notify>>

NextAccess ==
    \E u \in Users, view \in Views, act \in ViewActions,
       target \in Customers \cup Reqs \cup {"none"} :
        /\ target \in Customers => view = "customers"
        /\ target \in Reqs => view = "orders"
        /\ Access(u, view, act, target)

\* any users staff or not; orders left by earlier requests for c1 or c2
InitAccess ==
    /\ stock \in [Products -> {1}]
    /\ stock0 = stock
    /\ price = [p \in Products |-> 10]
    /\ orders \in [Reqs -> {NoOrder, [NoOrder EXCEPT !.exists = TRUE]}]
    /\ items = [i \in ItemIds |-> NoItem]
    /\ pc = [r \in Reqs |-> "idle"]
    /\ lines = [r \in Reqs |-> <<>>]
    /\ snap = [r \in Reqs |-> <<>>]
    /\ fields \in [Reqs -> [customer : Customers, status : {"none"}]]
    /\ \A r \in Reqs : ~orders[r].exists => fields[r] = NoFields
    /\ wrote = [r \in Reqs |-> 0]
    /\ notify = NotifyIdle
    /\ result = NoResult
    /\ is_active = [x \in Products \cup Customers |-> x # "c2"]
    /\ is_staff \in [Users -> BOOLEAN]
    /\ categories = [p \in Products |-> {}]
    /\ parent = [k \in Categories |-> "none"]

SpecAccess == InitAccess /\ [][NextAccess]_vars

\* ------------------------------------------------------------- catalogue reads
\* the categories reached from those in S by following children, S included
RECURSIVE Closure(_, _)
Closure(par, S) ==
    LET T == S \cup {k \in Categories : par[k] \in S}
    IN  IF T = S THEN S ELSE Closure(par, T)

\* Category.get_descendants(include_self=True)
get_descendants(c) == Closure(parent, {c})

\* a category tree: no category is below itself (MPTT refuses such a move)
Acyclic(par) ==
    \A k \in Categories : k \notin Closure(par, {j \in Categories : par[j] = k})

\* Product.objects.filter(categories__in=K): the join of products with the
\* product-category table, one row for each pair whose category is in K
JoinRows(K) ==
    {row \in Products \X Categories : row[2] \in categories[row[1]] /\ row[2] \in K}

\* Category.get_products_count: COUNT(*) over the joined rows
get_products_count(c) == Cardinality(JoinRows(get_descendants(c)))

\* rows averaged without looking at is_active
AverageRowsAnyActive(c) == JoinRows({c})

\* filter(categories__id=category_id, is_active=True)
AverageRows(c) == {row \in JoinRows({c}) : is_active[row[1]]}

\* aggregate(Avg('price')): None over no rows, the sum over the number of
\* rows otherwise
Avg(R) ==
    IF R = {} THEN [null |-> TRUE, sum |-> 0, count |-> 0]
    ELSE [null |-> FALSE,
          sum |-> SumOver([row \in Products \X Categories |-> price[row[1]]], R),
          count |-> Cardinality(R)]

\* CategorySerializer.get_products_count for category c, read by user u
ProductsCount(u, c) ==
    /\ result' = [NoResult EXCEPT !.user = u, !.view = "categories",
                                  !.action = "retrieve", !.target = c,
                                  !.code = 200,
                                  !.count = get_products_count(c)]
    /\ UNCHANGED <<rows, is_active, is_staff, categories, parent, notify>>

\* ProductViewSet.category_average: 403 unless staff, 400 without a
\* category_id, the average otherwise
CategoryAverage(u, c) ==
    /\ result' =
          LET base == [NoResult EXCEPT !.user = u, !.view = "products",
                                       !.action = "category_average",
                                       !.target = c]
              avg  == Avg(AverageRows(c))
          IN  IF ~Permitted(u, "category_average")
                  THEN [base EXCEPT !.code = 403]
              ELSE IF c = "none"
                  THEN [base EXCEPT !.code = 400]
              ELSE [base EXCEPT !.code = 200,
                                !.rows = {row[1] : row \in AverageRows(c)},
                                !.null = avg.null, !.sum = avg.sum,
                                !.count = avg.count]
    /\ UNCHANGED <<rows, is_active, is_staff, categories, parent, notify>>

\* any category tree and any assignment of products to categories
InitCount ==
    /\ stock \in [Products -> {1}]
    /\ stock0 = stock
    /\ price = [p \in Products |-> 10]
    /\ orders = [r \in Reqs |-> NoOrder]
    /\ items = [i \in ItemIds |-> NoItem]
    /\ InitRequests
    /\ is_active = [x \in Products \cup Customers |-> x # "c2"]
    /\ is_staff = [u \in Users |-> u = "u3"]
    /\ categories \in [Products -> SUBSET Categories]
    /\ parent \in [Categories -> Categories \cup {"none"}]
    /\ Acyclic(parent)

NextCount == \E u \in Users, c \in Categories : ProductsCount(u, c)

SpecCount == InitCount /\ [][NextCount]_vars

\* any assignment of products to categories, products active or not and at
\* either price
InitAverage ==
    /\ stock \in [Products -> {1}]
    /\ stock0 = stock
    /\ price \in [Products -> Prices]
    /\ orders = [r \in Reqs |-> NoOrder]
    /\ items = [i \in ItemIds |-> NoItem]
    /\ InitRequests
    /\ is_active \in [Products \cup Customers -> BOOLEAN]
    /\ \A c \in Customers : is_active[c] = (c # "c2")
    /\ is_staff = [u \in Users |-> u = "u3"]
    /\ categories \in [Products -> SUBSET Categories]
    /\ parent = [k \in Categories |-> "none"]

NextAverage ==
    \E u \in Users, c \in Categories \cup {"none"} : CategoryAverage(u, c)

SpecAverage == InitAverage /\ [][NextAverage]_vars

\* ------------------------------------------------------------- what a request ends as
\* OrderViewSet.perform_create: serializer.save() returns the order, then
\* _send_order_notifications(order) runs once and the request answers 201.
\* A request stands at "done" after that; a request whose save raised never
\* gets there.
Succeeded(r) == pc[r] = "done"

\* how often _send_order_notifications has run for a request
DispatcherCalls(r) == IF pc[r] = "done" THEN 1 ELSE 0

\* the request has been answered: 400, 500 or 201
Finished(r) == pc[r] \in {"rejected", "error", "done"}

InFlight(r) == pc[r] \in {"fetching", "valid", "ordered"}

Alone(r) == \A r2 \in Reqs \ {r} : pc[r2] = "idle"

\* the quantity an item list asks of product p, over all its lines
Requested(ls, p) ==
    SumOver([i \in 1..Len(ls) |-> ls[i].quantity],
            {i \in 1..Len(ls) : ls[i].product = p})

\* the quantity of product p in the OrderItem rows in S
ItemQuantity(S, p) ==
    SumOver([i \in ItemIds |-> items[i].quantity],
            {i \in S : items[i].product = p})

UsedItems == {i \in ItemIds : items[i].used}

\* ------------------------------------------------------------- claims

\* C1: a product has stock N > 0 and both requests ask for N of it on a
\* single line; once both are answered, exactly one has succeeded, the
\* other was refused for insufficient stock, and the stock is 0.
C1_ExactlyOneSucceeds ==
    \A p \in Products :
        (\A r \in Reqs :
            /\ Finished(r)
            /\ lines[r] = <<[product |-> p, quantity |-> stock0[p]]>>)
        => /\ \E r \in Reqs :
                /\ Succeeded(r)
                /\ \A r2 \in Reqs \ {r} : pc[r2] = "rejected"
           /\ stock[p] = 0

\* C2: no overselling: when no request is in flight, the quantities of the
\* persisted OrderItems of a product plus its stock make its starting stock.
C2_NoOverselling ==
    (\A r \in Reqs : ~InFlight(r))
    => \A p \in Products : ItemQuantity(UsedItems, p) + stock[p] = stock0[p]

\* C3: the stock of every product is never negative.
C3_StockNonNegative == \A p \in Products : stock[p] >= 0

\* C3's case: two requests contend for all that is left of one product, one
\* has written the stock down to 0 and the other is about to write.
C3_Contended ==
    \E r1 \in Reqs, r2 \in Reqs, p \in Products :
        /\ pc[r1] = "error" /\ pc[r2] = "ordered"
        /\ lines[r1][1].product = p /\ lines[r2][1].product = p
        /\ snap[r2][1].stock = lines[r2][1].quantity
        /\ stock[p] = 0

\* C4: an Order row that is visible is in its final form: an OrderItem for
\* every line asked, no stock write still to come, and a total that is the
\* sum over those items (so not zero).
C4_OrderVisibleOnlyFinal ==
    \A r \in Reqs :
        orders[r].exists
        => /\ pc[r] # "ordered"
           /\ \A p \in Products :
                ItemQuantity(order_items(items, r), p) = Requested(lines[r], p)
           /\ orders[r].total = ItemsTotal(items, r)
           /\ orders[r].total > 0

\* C5: a request one of whose lines asks for more than the stock it read is
\* refused and has written nothing: no Order, no OrderItem, no row write;
\* run alone it leaves every stock and price as they were.
C5_AllOrNothing ==
    \A r \in Reqs :
        /\ pc[r] \in {"idle", "fetching"} => wrote[r] = 0
        /\ (/\ pc[r] \notin {"idle", "fetching"}
            /\ \E i \in 1..Len(lines[r]) :
                   lines[r][i].quantity > snap[r][i].stock)
           => /\ pc[r] = "rejected"
              /\ wrote[r] = 0
              /\ ~orders[r].exists
              /\ order_items(items, r) = {}
              /\ Alone(r) => (stock = stock0 /\ \A p \in Products : price[p] = 10)
        /\ (/\ Alone(r)
            /\ Finished(r)
            /\ \E i \in 1..Len(lines[r]) :
                   lines[r][i].quantity > stock0[lines[r][i].product])
           => /\ pc[r] = "rejected"
              /\ ~orders[r].exists
              /\ stock = stock0

\* C5's case: a request of two lines is refused for its second line while
\* its first line could have been served, with another request under way.
C5_RefusedWithServableLine ==
    \E r \in Reqs, r2 \in Reqs :
        /\ pc[r] = "rejected" /\ pc[r2] = "ordered"
        /\ Len(lines[r]) = 2
        /\ lines[r][1].quantity <= snap[r][1].stock
        /\ lines[r][2].quantity > snap[r][2].stock
        /\ lines[r][1].product # lines[r][2].product

\* C6: a request run alone whose items the starting stock covers succeeds,
\* its order is persisted, and every stock is down by what it ordered.
C6_SingleRequestSucceeds ==
    \A r \in Reqs :
        (/\ Alone(r)
         /\ Finished(r)
         /\ \A p \in Products : Requested(lines[r], p) <= stock0[p])
        => /\ Succeeded(r)
           /\ orders[r].exists
           /\ \A p \in Products :
                stock[p] = stock0[p] - Requested(lines[r], p)

\* C8: the price_at_time of an OrderItem is the product's price when the
\* item is created, and no later step changes it.
C8_PriceSnapshotKept ==
    [][\A i \in ItemIds :
          /\ (~items[i].used /\ items'[i].used)
             => items'[i].price_at_time = price[items'[i].product]
          /\ items[i].used
             => items'[i].price_at_time = items[i].price_at_time]_vars

\* C9: a request that failed on a write after its Order row was created has
\* left nothing behind: run alone, no Order, no OrderItem, the stock as before.
C9_FailureRolledBack ==
    \A r \in Reqs :
        (pc[r] = "error" /\ Alone(r))
        => /\ ~orders[r].exists
           /\ order_items(items, r) = {}
           /\ stock = stock0

\* C10: an answered request has had the dispatcher run once when it
\* committed an order, and not at all when it did not.
C10_DispatchedOncePerOrder ==
    \A r \in Reqs :
        Finished(r)
        => DispatcherCalls(r) = (IF orders[r].exists THEN 1 ELSE 0)

\* C11: whatever the SMS and the email attempt end as, a finished run of the
\* dispatcher has attempted both, has raised nothing to its caller, and no
\* step of it changes an order, an item or a stock.
C11_ChannelsIndependent ==
    [][notify' # notify
       => /\ UNCHANGED <<orders, items, stock, price>>
          /\ notify'.at = "done"
             => /\ notify'.sms \in {"sent", "failed"}
                /\ notify'.email \in {"sent", "failed"}
                /\ ~notify'.raised]_vars

\* C11's case: the SMS attempt failed, the email was sent all the same, and
\* the order is still there.
C11_SmsFailedEmailSent ==
    /\ notify.at = "done"
    /\ notify.sms = "failed" /\ notify.email = "sent"
    /\ notify.logged = 1
    /\ orders[notify.order].exists

\* C12: every Order row that order placement creates has status PENDING.
C12_CreatedPending ==
    \A r \in Reqs : orders[r].exists => orders[r].status = "PENDING"

\* C13: a request whose customer is missing or inactive, whose item list is
\* empty, or one of whose lines has a quantity below 1 or a missing or
\* inactive product, is refused and has written nothing.
C13_InvalidWritesNothing ==
    \A r \in Reqs :
        (/\ pc[r] # "idle"
         /\ \/ fields[r].customer \notin Customers
            \/ ~is_active[fields[r].customer]
            \/ lines[r] = <<>>
            \/ \E i \in 1..Len(lines[r]) :
                  \/ lines[r][i].quantity < 1
                  \/ lines[r][i].product \notin Products
                  \/ ~is_active[lines[r][i].product])
        => /\ pc[r] = "rejected"
           /\ wrote[r] = 0
           /\ ~orders[r].exists
           /\ order_items(items, r) = {}
           /\ stock = stock0

\* C13's case: a request is refused for its inactive customer alone: its
\* lines name active products and ask no more than is in stock.
C13_RefusedInactiveCustomer ==
    \E r \in Reqs :
        /\ pc[r] = "rejected"
        /\ fields[r].customer = "c2"
        /\ fields[r].status = "none"
        /\ Len(lines[r]) = 2
        /\ \A i \in 1..2 :
              /\ lines[r][i].product \in Products
              /\ is_active[lines[r][i].product]
              /\ lines[r][i].quantity >= 1
              /\ lines[r][i].quantity <= stock[lines[r][i].product]

\* C14: what a user who is not staff is given to read or to change is
\* their own (customer.user, order.customer.user); a staff user is given
\* every row: all of them in a list, and any existing target.
C14_OwnRowsOnly ==
    result.view \in Views
    => LET u == result.user
       IN  /\ ~is_staff[u]
              => \A x \in result.rows :
                    IF result.view = "customers"
                    THEN customer_user[x] = u
                    ELSE customer_user[fields[x].customer] = u
           /\ (is_staff[u] /\ result.action = "list")
              => result.rows = (IF result.view = "customers" THEN Customers
                                ELSE {o \in Reqs : orders[o].exists})
           /\ (/\ is_staff[u]
               /\ result.action # "list"
               /\ \/ result.target \in Customers
                  \/ (result.target \in Reqs /\ orders[result.target].exists))
              => result.rows = {result.target}

\* C14's case: orders of both customers exist, and user u1, who is not
\* staff, lists the orders and is given the one of customer c1.
C14_ListsOwnOrderOnly ==
    /\ result.view = "orders" /\ result.action = "list"
    /\ result.user = "u1" /\ ~is_staff["u1"]
    /\ orders["r1"].exists /\ fields["r1"].customer = "c1"
    /\ orders["r2"].exists /\ fields["r2"].customer = "c2"
    /\ result.rows = {"r1"}

\* C15: the products count of a category is the number of distinct
\* products with a category among the category and its descendants; a
\* product in both the category and a descendant counts once.
C15_CountsDistinctProducts ==
    (result.view = "categories" /\ result.action = "retrieve")
    => result.count =
         Cardinality({p \in Products :
                        categories[p] \cap get_descendants(result.target) # {}})

\* C16: the average price of a category is null exactly when no active
\* product is in the category, and otherwise the sum of the prices of the
\* active products in it over their number.
C16_AverageOverActive ==
    (result.action = "category_average" /\ result.code = 200)
    => LET S == {p \in Products :
                   result.target \in categories[p] /\ is_active[p]}
       IN  /\ result.null <=> S = {}
           /\ ~result.null
              => /\ result.count = Cardinality(S)
                 /\ result.sum = SumOver(price, S)

\* C16's case: the category asked for has a product, none of its products
\* is active, and the answer is null.
C16_OnlyInactiveGivesNull ==
    /\ result.action = "category_average" /\ result.code = 200
    /\ \E p \in Products : result.target \in categories[p]
    /\ \A p \in Products : result.target \in categories[p] => ~is_active[p]
    /\ result.null

\* C17: whatever items have been added to, re-saved in or deleted from an
\* order, its stored total_amount is the sum of quantity * price_at_time
\* over the items it has.
C17_TotalMatchesItems ==
    \A o \in Reqs :
        orders[o].exists
        => orders[o].total =
             SumOver([i \in ItemIds |-> items[i].quantity * items[i].price_at_time],
                     {i \in ItemIds : items[i].used /\ items[i].order = o})

\* C18: update_stock with a non-negative integer stores it and answers
\* success; with a missing, negative or non-integer value it answers an
\* error and leaves the stock as it was; it never answers an error having
\* changed the stock.
C18_StoredOrRefused ==
    [][\A p \in Products, raw \in StockInputs :
          UpdateStock(p, raw)
          => /\ (raw.kind = "int" /\ raw.value >= 0)
                => (UpdateStockStatus(raw) = 200 /\ stock'[p] = raw.value)
             /\ ~(raw.kind = "int" /\ raw.value >= 0)
                => (UpdateStockStatus(raw) >= 400 /\ stock' = stock)
             /\ UpdateStockStatus(raw) >= 400 => stock' = stock]_vars

====
